---- MODULE Spec2Model ----
(***************************************************************************)
(* handlr-regex: resolution of the handler of a MIME type or of a path,    *)
(* the user's mimeapps.list associations and their (de)serialisation.      *)
(*                                                                         *)
(* MIME types and paths are strings; where the code looks inside a string  *)
(* (glob matching, lower-casing, the type before the slash, splitting a    *)
(* value at semicolons) the string is the sequence of its characters.      *)
(***************************************************************************)
EXTENDS Integers, Sequences, FiniteSets, TLC

VARIABLES
    mime_apps,     \* AppsConfig.mime_apps: [added_associations, default_apps]
    system_apps,   \* AppsConfig.system_apps: mime -> non-empty list of handlers
    regex_apps,    \* AppsConfig.config's regex handlers, in configuration order
    file,          \* the content of mimeapps.list on disk
    opened,        \* the open() invocations made, in order, each with its arguments
    pc,            \* "ready", or "done" once the command of a process run has ended
    ret            \* the last operation: its name, its arguments, what it returned

vars == <<mime_apps, system_apps, regex_apps, file, opened, pc, ret>>

----------------------------------------------------------------------------
(* Bounds *)

\* handlers stored in the default associations, all lists together
MaxTotal == 2
\* paths given to one open_paths call
MaxPaths == 2
\* characters of one value string of mimeapps.list
MaxValLen == 4

----------------------------------------------------------------------------
(* Strings *)

\* The MIME strings of the model and their characters.
\* x/t stands for x-scheme-handler/terminal.
CharsOf ==
    [m \in {"v/wm", "v/m", "v/*", "v/w*", "*/wm", "*/*", "x/t", "x/*"} |->
        CASE m = "v/wm" -> <<"v", "/", "w", "m">>
          [] m = "v/m"  -> <<"v", "/", "m">>
          [] m = "v/*"  -> <<"v", "/", "*">>
          [] m = "v/w*" -> <<"v", "/", "w", "*">>
          [] m = "*/wm" -> <<"*", "/", "w", "m">>
          [] m = "*/*"  -> <<"*", "/", "*">>
          [] m = "x/t"  -> <<"x", "/", "t">>
          [] m = "x/*"  -> <<"x", "/", "*">>]

Mimes == DOMAIN CharsOf

\* keys the mutating commands are called with
MimeKeys == {"v/wm", "v/*", "v/w*", "*/wm"}

\* MIME types handlers are asked for
QueryMimes == {"v/wm", "v/m", "v/*"}

\* desktop files installed on the system (each a one-character name)
Installed == {"a", "b"}

\* the display name (Name=) of an installed desktop entry
EntryName == [h \in Installed |-> IF h = "a" THEN "A" ELSE "B"]

RECURSIVE Orders(_)
\* every order in which a HashMap may iterate over the keys S
Orders(S) ==
    IF S = {} THEN {<<>>}
    ELSE UNION {{<<x>> \o o : o \in Orders(S \ {x})} : x \in S}

RECURSIVE SeqsUpTo(_, _)
SeqsUpTo(S, n) ==
    IF n = 0 THEN {<<>>}
    ELSE LET shorter == SeqsUpTo(S, n - 1)
         IN  shorter \cup {Append(s, x) : s \in {t \in shorter : Len(t) = n - 1}, x \in S}

RECURSIVE SelectIdx(_, _, _)
\* the indices i >= from of seq with seq[i] in S, ascending
SelectIdx(seq, S, from) ==
    IF from > Len(seq) THEN <<>>
    ELSE IF seq[from] \in S THEN <<from>> \o SelectIdx(seq, S, from + 1)
    ELSE SelectIdx(seq, S, from + 1)

----------------------------------------------------------------------------
(* Results *)

Ok(h) == [kind |-> "Ok", val |-> h]
Err(kind, arg) == [kind |-> kind, val |-> arg]
IsOk(r) == r.kind = "Ok"

----------------------------------------------------------------------------
(* mime::Mime and wildmatch::WildMatch as get_handler uses them *)

RECURSIVE WildMatch(_, _)
\* the glob pattern p (characters; * is any run of characters, ? any one) matches text t
WildMatch(p, t) ==
    IF p = <<>> THEN t = <<>>
    ELSE IF Head(p) = "*"
         THEN WildMatch(Tail(p), t) \/ (t # <<>> /\ WildMatch(p, Tail(t)))
    ELSE IF Head(p) = "?"
         THEN t # <<>> /\ WildMatch(Tail(p), Tail(t))
    ELSE t # <<>> /\ Head(t) = Head(p) /\ WildMatch(Tail(p), Tail(t))

\* WildMatch::new(pattern).matches(mime), for the MIME strings of the model
matches == [pattern \in Mimes |-> {m \in Mimes : WildMatch(CharsOf[pattern], CharsOf[m])}]

\* Mime::from_str(&format!("{}/*", mime.type_()))
type_wildcard ==
    [mime \in Mimes |->
        LET c == CharsOf[mime]
            slash == CHOOSE i \in 1..Len(c) : c[i] = "/" /\ \A j \in 1..(i - 1) : c[j] # "/"
            w == SubSeq(c, 1, slash - 1) \o <<"/", "*">>
        IN  CHOOSE m \in Mimes : CharsOf[m] = w]

----------------------------------------------------------------------------
(* MimeApps: the in-memory user associations *)

Total(apps) ==
    LET RECURSIVE Sum(_)
        Sum(S) == IF S = {} THEN 0
                  ELSE LET k == CHOOSE x \in S : TRUE
                       IN  Len(apps[k]) + Sum(S \ {k})
    IN  Sum(DOMAIN apps)

\* HashMap::insert
Insert(map, k, v) == [x \in DOMAIN map \cup {k} |-> IF x = k THEN v ELSE map[x]]
\* HashMap::remove
Remove(map, k) == [x \in DOMAIN map \ {k} |-> map[x]]
\* HashMap::entry(k).or_default()
OrDefault(map, k) == IF k \in DOMAIN map THEN map[k] ELSE <<>>

\* VecDeque::remove(pos)
RemoveAt(list, pos) == SubSeq(list, 1, pos - 1) \o SubSeq(list, pos + 1, Len(list))

\* add_handler putting the handler at the front of the list
add_handler_first(apps, mime, handler) ==
    [apps EXCEPT !.default_apps =
        Insert(@, mime, <<handler>> \o OrDefault(@, mime))]

\* push_back on the list of mime, created empty when there is none
add_handler(apps, mime, handler) ==
    [apps EXCEPT !.default_apps =
        Insert(@, mime, Append(OrDefault(@, mime), handler))]

\* set_handler appending to the list instead of replacing it
set_handler_append(apps, mime, handler) ==
    [apps EXCEPT !.default_apps =
        Insert(@, mime, Append(OrDefault(@, mime), handler))]

\* insert of a one-element list
set_handler(apps, mime, handler) ==
    [apps EXCEPT !.default_apps = Insert(@, mime, <<handler>>)]

unset_handler(apps, mime) ==
    [apps |-> [apps EXCEPT !.default_apps = Remove(@, mime)],
     ret  |-> IF mime \in DOMAIN apps.default_apps
              THEN <<apps.default_apps[mime]>> ELSE <<>>]

\* remove_handler removing every element equal to handler
remove_handler_every(apps, mime, handler) ==
    LET handler_list == OrDefault(apps.default_apps, mime)
        others == SelectIdx(handler_list, Installed \ {handler}, 1)
    IN  [apps |-> [apps EXCEPT !.default_apps =
                      Insert(@, mime, [k \in DOMAIN others |-> handler_list[others[k]]])],
         ret  |-> IF \E i \in DOMAIN handler_list : handler_list[i] = handler
                  THEN <<handler>> ELSE <<>>]

\* returns the new associations and the Option returned (<<>> is None)
remove_handler(apps, mime, handler) ==
    LET handler_list == OrDefault(apps.default_apps, mime)
        found == {i \in 1..Len(handler_list) : handler_list[i] = handler}
    IN  IF found = {}
        THEN [apps |-> [apps EXCEPT !.default_apps = Insert(@, mime, handler_list)],
              ret  |-> <<>>]
        ELSE LET pos == CHOOSE i \in found : \A j \in found : i <= j
             IN  [apps |-> [apps EXCEPT !.default_apps =
                               Insert(@, mime, RemoveAt(handler_list, pos))],
                  ret  |-> <<handler_list[pos]>>]

\* the first element of the iteration order that is in S
FirstOf(order, S) ==
    order[CHOOSE i \in DOMAIN order :
            order[i] \in S /\ \A j \in 1..(i - 1) : order[j] \notin S]

\* the keys get_from_wildcard keeps: those of the longest wildcards that match
longest_matches(apps, mime) ==
    LET associations == {m \in DOMAIN apps.default_apps : mime \in matches[m]}
    IN  {m \in associations :
            \A n \in associations : Len(CharsOf[n]) <= Len(CharsOf[m])}

\* The Option<&DesktopList> found (<<>> is None); order is the order in which the
\* default_apps HashMap iterates over the keys kept.
get_from_wildcard(apps, mime, order) ==
    IF longest_matches(apps, mime) = {} THEN <<>>
    ELSE <<apps.default_apps[FirstOf(order, longest_matches(apps, mime))]>>

----------------------------------------------------------------------------
(* The selector subprocess *)

\* what the selector process may do: fail to run, or write this to its stdout
SelectorRuns ==
    {[ran |-> FALSE, out |-> <<>>],
     [ran |-> TRUE, out |-> <<"\n">>],
     [ran |-> TRUE, out |-> <<"A", "\n">>],
     [ran |-> TRUE, out |-> <<"B", "\n">>],
     [ran |-> TRUE, out |-> <<"Z">>]}

RECURSIVE trim_end(_)
trim_end(s) ==
    IF s # <<>> /\ s[Len(s)] \in {"\n", " "} THEN trim_end(SubSeq(s, 1, Len(s) - 1))
    ELSE s

\* select(selector, opts) when the process behaves as run
select(run) ==
    IF ~run.ran THEN Err("Io", <<>>)
    ELSE LET output == trim_end(run.out)
         IN  IF output = <<>> THEN Err("Cancelled", <<>>) ELSE Ok(output)

----------------------------------------------------------------------------
(* Resolution of a MIME type *)

\* get_handler_from_user looking the wildcards up before the exact key
get_handler_from_user_wildcard_first(apps, mime, run, use_selector, order) ==
    LET wild == get_from_wildcard(apps, mime, order)
        found == IF wild # <<>> THEN wild
                 ELSE IF mime \in DOMAIN apps.default_apps
                      THEN <<apps.default_apps[mime]>> ELSE <<>>
    IN  IF found = <<>> \/ found[1] = <<>>
        THEN [res |-> Err("NotFound", mime), sel |-> <<>>]
        ELSE [res |-> Ok(found[1][1]), sel |-> <<>>]

\* get_handler_from_user asking the selector for every list that is not empty
get_handler_from_user_select_single(apps, mime, run, use_selector, order) ==
    LET error == Err("NotFound", mime)
        found == IF mime \in DOMAIN apps.default_apps
                 THEN <<apps.default_apps[mime]>>
                 ELSE get_from_wildcard(apps, mime, order)
    IN  IF found = <<>> THEN [res |-> error, sel |-> <<>>]
        ELSE LET handlers == found[1]
             IN  IF use_selector /\ Len(handlers) > 0
                 THEN LET names == [i \in DOMAIN handlers |-> EntryName[handlers[i]]]
                          name == select(run)
                          call == [opts |-> names,
                                   out |-> IF run.ran THEN trim_end(run.out) ELSE <<>>,
                                   ran |-> run.ran]
                          hits == {i \in DOMAIN handlers : <<names[i]>> = name.val}
                      IN  IF ~IsOk(name) THEN [res |-> name, sel |-> <<call>>]
                          ELSE IF hits = {} THEN [res |-> error, sel |-> <<call>>]
                          ELSE [res |-> Ok(handlers[CHOOSE i \in hits :
                                                       \A j \in hits : i <= j]),
                                sel |-> <<call>>]
                 ELSE IF handlers = <<>> THEN [res |-> error, sel |-> <<>>]
                 ELSE [res |-> Ok(handlers[1]), sel |-> <<>>]

\* res is the Result returned; sel lists the selector invocations made, each with
\* the options offered and the trimmed output read (<<>> when none was read).
get_handler_from_user(apps, mime, run, use_selector, order) ==
    LET error == Err("NotFound", mime)
        found == IF mime \in DOMAIN apps.default_apps
                 THEN <<apps.default_apps[mime]>>
                 ELSE get_from_wildcard(apps, mime, order)
    IN  IF found = <<>> THEN [res |-> error, sel |-> <<>>]
        ELSE LET handlers == found[1]
             IN  IF use_selector /\ Len(handlers) > 1
                 THEN LET names == [i \in DOMAIN handlers |-> EntryName[handlers[i]]]
                          name == select(run)
                          call == [opts |-> names,
                                   out |-> IF run.ran THEN trim_end(run.out) ELSE <<>>,
                                   ran |-> run.ran]
                          hits == {i \in DOMAIN handlers : <<names[i]>> = name.val}
                      IN  IF ~IsOk(name) THEN [res |-> name, sel |-> <<call>>]
                          ELSE IF hits = {} THEN [res |-> error, sel |-> <<call>>]
                          ELSE [res |-> Ok(handlers[CHOOSE i \in hits :
                                                       \A j \in hits : i <= j]),
                                sel |-> <<call>>]
                 ELSE IF handlers = <<>> THEN [res |-> error, sel |-> <<>>]
                 ELSE [res |-> Ok(handlers[1]), sel |-> <<>>]

\* SystemApps::get_handler: the Option returned
SystemApps_get_handler(sys, mime) ==
    IF mime \in DOMAIN sys THEN <<sys[mime][1]>> ELSE <<>>

\* steps names what was looked up: "added" the added associations, "system" the
\* system associations
get_handler_from_added_associations(apps, sys, mime) ==
    LET opt == IF mime \in DOMAIN apps.added_associations
               THEN (IF apps.added_associations[mime] = <<>> THEN <<>>
                     ELSE <<apps.added_associations[mime][1]>>)
               ELSE SystemApps_get_handler(sys, mime)
    IN  [res   |-> IF opt = <<>> THEN Err("NotFound", mime) ELSE Ok(opt[1]),
         steps |-> IF mime \in DOMAIN apps.added_associations
                   THEN <<"added">> ELSE <<"added", "system">>]

\* the selector invocations sel, each marked with the step that made it
During(step, sel) == [i \in DOMAIN sel |-> [step |-> step] @@ sel[i]]

\* run1 and run2 are what the selector does at its first and second invocation;
\* steps lists the lookups made: "user" (the default associations of mime),
\* "type_wildcard" (those of type/*), "added", "system".
get_handler(apps, sys, mime, run1, run2, enable_selector, order) ==
    LET first == get_handler_from_user(apps, mime, run1, enable_selector, order)
    IN  IF first.res.kind = "Cancelled" \/ IsOk(first.res)
        THEN [res |-> first.res, sel |-> During("user", first.sel),
              steps |-> <<"user">>]
        ELSE LET wildcard == type_wildcard[mime]
                 second == get_handler_from_user(apps, wildcard,
                               IF first.sel = <<>> THEN run1 ELSE run2,
                               enable_selector, order)
                 sel == During("user", first.sel) \o During("type_wildcard", second.sel)
             IN  IF IsOk(second.res)
                 THEN [res |-> second.res, sel |-> sel,
                       steps |-> <<"user", "type_wildcard">>]
                 ELSE LET last == get_handler_from_added_associations(apps, sys, mime)
                      IN  [res |-> last.res, sel |-> sel,
                           steps |-> <<"user", "type_wildcard">> \o last.steps]

----------------------------------------------------------------------------
(* Paths, regex handlers and the resolution of a path *)

\* the UserPath values given on the command line
Paths ==
    {[variant |-> "File", path |-> "/1.wm"],
     [variant |-> "File", path |-> "/2.wm"],
     [variant |-> "File", path |-> "/3.m"],
     [variant |-> "File", path |-> "/none"]}

\* Display of a UserPath
UserPath_fmt(path) == path.path

\* UserPath::get_mime: the MIME type detected for the file, or the detection's error
get_mime(path) ==
    CASE path.path = "/1.wm" -> Ok("v/wm")
      [] path.path = "/2.wm" -> Ok("v/wm")
      [] path.path = "/3.m"  -> Ok("v/m")
      [] OTHER               -> Err("Io", path.path)

\* the texts, among those of Paths, each regular expression matches
RegexLanguage ==
    [pattern \in {"wm$", "^/1", "^/n"} |->
        CASE pattern = "wm$" -> {"/1.wm", "/2.wm"}
          [] pattern = "^/1" -> {"/1.wm"}
          [] pattern = "^/n" -> {"/none"}]

\* RegexHandler::is_match: RegexSet::is_match, some pattern of the set matches
is_match(app, text) ==
    \E i \in DOMAIN app.regexes : text \in RegexLanguage[app.regexes[i]]

\* RegexApps::get_handler returning the last handler that matches
RegexApps_get_handler_last(apps, path) ==
    LET found == {i \in DOMAIN apps : is_match(apps[i], UserPath_fmt(path))}
    IN  IF found = {} THEN Err("NotFound", UserPath_fmt(path))
        ELSE Ok(apps[CHOOSE i \in found : \A j \in found : j <= i])

\* RegexApps::get_handler: iter().find()
RegexApps_get_handler(apps, path) ==
    LET found == {i \in DOMAIN apps : is_match(apps[i], UserPath_fmt(path))}
    IN  IF found = {} THEN Err("NotFound", UserPath_fmt(path))
        ELSE Ok(apps[CHOOSE i \in found : \A j \in found : i <= j])

\* Config::get_regex_handler: the match of the configuration's regex handlers
get_regex_handler(config, path) == RegexApps_get_handler(config, path)

\* the two variants of Handler
FromDesktopHandler(h) == [variant |-> "DesktopHandler", name |-> h]
FromRegexHandler(h) == [variant |-> "RegexHandler"] @@ h

\* regex is what get_regex_handler returned; sel and steps are those of the
\* get_handler call, empty when it was not made
get_handler_from_path(apps, sys, config, path, run1, run2, enable_selector, order) ==
    LET regex == get_regex_handler(config, path)
        mime == get_mime(path)
        none == [regex |-> regex, sel |-> <<>>, steps |-> <<>>]
    IN  IF IsOk(regex) THEN [res |-> Ok(FromRegexHandler(regex.val))] @@ none
        ELSE IF ~IsOk(mime) THEN [res |-> mime] @@ none
        ELSE [regex |-> regex]
             @@ [get_handler(apps, sys, mime.val, run1, run2, enable_selector, order)
                   EXCEPT !.res = IF IsOk(@) THEN Ok(FromDesktopHandler(@.val)) ELSE @]

\* the paths' strings pushed under handler, in the order of the loop
pushed(paths, resolved, handler) ==
    LET at == SelectIdx([i \in DOMAIN resolved |-> resolved[i].res.val], {handler}, 1)
    IN  [k \in DOMAIN at |-> UserPath_fmt(paths[at[k]])]

\* open_paths making one open call for each path
open_paths_each(paths, resolved, order, fail) ==
    IF resolved # <<>> /\ ~IsOk(resolved[Len(resolved)].res)
    THEN [calls |-> <<>>, res |-> resolved[Len(resolved)].res]
    ELSE [calls |-> [k \in DOMAIN paths |->
                        [handler |-> resolved[k].res.val,
                         args |-> <<UserPath_fmt(paths[k])>>, ok |-> TRUE]],
          res   |-> Ok(<<>>)]

\* open_paths opening the handlers found so far before it reports a path that
\* did not resolve
open_paths_eager(paths, resolved, order, fail) ==
    IF resolved # <<>> /\ ~IsOk(resolved[Len(resolved)].res)
    THEN [calls |-> [k \in DOMAIN order |->
                        [handler |-> order[k],
                         args |-> pushed(paths, SubSeq(resolved, 1, Len(resolved) - 1),
                                         order[k]),
                         ok |-> TRUE]],
          res   |-> resolved[Len(resolved)].res]
    ELSE LET made == IF fail = 0 THEN Len(order) ELSE fail
         IN  [calls |-> [k \in 1..made |->
                            [handler |-> order[k],
                             args |-> pushed(paths, resolved, order[k]),
                             ok |-> k # fail]],
              res   |-> IF fail = 0 THEN Ok(<<>>) ELSE Err("Io", order[fail])]

\* resolved is what get_handler_from_path returned for each path the first loop
\* reached, order the order in which the HashMap handlers iterates, fail the
\* number of the open call that fails (0: none does). calls lists the open calls
\* made; res is the Result returned.
open_paths(paths, resolved, order, fail) ==
    IF resolved # <<>> /\ ~IsOk(resolved[Len(resolved)].res)
    THEN [calls |-> <<>>, res |-> resolved[Len(resolved)].res]
    ELSE LET made == IF fail = 0 THEN Len(order) ELSE fail
         IN  [calls |-> [k \in 1..made |->
                            [handler |-> order[k],
                             args |-> pushed(paths, resolved, order[k]),
                             ok |-> k # fail]],
              res   |-> IF fail = 0 THEN Ok(<<>>) ELSE Err("Io", order[fail])]

----------------------------------------------------------------------------
(* mimeapps.list: parsing and writing *)

\* the characters of a value
ValueChars == Installed \cup {";"}

Values == SeqsUpTo(ValueChars, MaxValLen)

\* the keys as written in the file
RawKeys == {<<"v", "/", "w", "m">>, <<"V", "/", "W", "M">>}

Lines == [key : RawKeys, value : Values]

\* A file holds both section headers and at most one key under each.
Sections == {<<>>} \cup {<<l>> : l \in Lines}

Files == [added : Sections, default : Sections]

to_ascii_lowercase(c) ==
    CASE c = "V" -> "v" [] c = "W" -> "w" [] c = "M" -> "m" [] OTHER -> c

\* Mime::from_str of a key of the file
Mime_from_str(s) ==
    CHOOSE m \in Mimes : CharsOf[m] = [i \in DOMAIN s |-> to_ascii_lowercase(s[i])]

\* Display of a Mime
Mime_fmt(m) == CharsOf[m]

RECURSIVE split(_, _)
\* str::split(sep)
split(s, sep) ==
    IF \A i \in DOMAIN s : s[i] # sep THEN <<s>>
    ELSE LET at == CHOOSE i \in DOMAIN s : s[i] = sep /\ \A j \in 1..(i - 1) : s[j] # sep
         IN  <<SubSeq(s, 1, at - 1)>> \o split(SubSeq(s, at + 1, Len(s)), sep)

\* Itertools::unique: the first occurrence of each element
unique(seq) ==
    LET keep == {i \in DOMAIN seq : \A j \in 1..(i - 1) : seq[j] # seq[i]}
        idx == SelectIdx([i \in DOMAIN seq |-> i], keep, 1)
    IN  [k \in DOMAIN idx |-> seq[idx[k]]]

\* DesktopHandler::from_str succeeds: the desktop file of that name is installed
DesktopHandler_valid(name) == Len(name) = 1 /\ name[1] \in Installed

\* Display of a DesktopHandler
DesktopHandler_fmt(h) == <<h>>

\* DesktopList::from_str keeping every occurrence of a name
DesktopList_from_str_no_unique(s) ==
    LET all == split(s, ";")
        nonempty == SelectIdx([i \in DOMAIN all |-> i],
                        {i \in DOMAIN all : all[i] # <<>>}, 1)
        valid == SelectIdx([i \in DOMAIN nonempty |-> i],
                     {i \in DOMAIN nonempty : DesktopHandler_valid(all[nonempty[i]])}, 1)
    IN  [k \in DOMAIN valid |-> all[nonempty[valid[k]]][1]]

\* split at ';', drop the empty segments, unique, keep the valid handlers
DesktopList_from_str(s) ==
    LET all == split(s, ";")
        nonempty == SelectIdx([i \in DOMAIN all |-> i],
                        {i \in DOMAIN all : all[i] # <<>>}, 1)
        parts == unique([k \in DOMAIN nonempty |-> all[nonempty[k]]])
        valid == SelectIdx([i \in DOMAIN parts |-> i],
                     {i \in DOMAIN parts : DesktopHandler_valid(parts[i])}, 1)
    IN  [k \in DOMAIN valid |-> parts[valid[k]][1]]

RECURSIVE join(_, _)
\* Itertools::join of the handlers' Display
join(list, sep) ==
    IF list = <<>> THEN <<>>
    ELSE IF Len(list) = 1 THEN DesktopHandler_fmt(list[1])
    ELSE DesktopHandler_fmt(list[1]) \o <<sep>> \o join(Tail(list), sep)

\* Display of a DesktopList without the final semicolon
DesktopList_fmt_no_semicolon(list) == join(list, ";")

\* Display of a DesktopList: the final semicolon is always written
DesktopList_fmt(list) == join(list, ";") \o <<";">>

RECURSIVE parse_section(_)
\* the HashMap a section deserialises to: a later line replaces an earlier one of
\* the same key
parse_section(lines) ==
    IF lines = <<>> THEN <<>>
    ELSE LET l == lines[Len(lines)]
         IN  Insert(parse_section(SubSeq(lines, 1, Len(lines) - 1)),
                    Mime_from_str(l.key), DesktopList_from_str(l.value))

Retain(map) == [k \in {x \in DOMAIN map : map[x] # <<>>} |-> map[k]]

\* the file deserialised; the empty default associations are removed
MimeApps_read(f) ==
    [added_associations |-> parse_section(f.added),
     default_apps       |-> Retain(parse_section(f.default))]

\* the lines a map serialises to, its keys visited in this order
write_section(map, order) ==
    LET keys == SelectIdx(order, DOMAIN map, 1)
    IN  [i \in DOMAIN keys |->
            [key   |-> Mime_fmt(order[keys[i]]),
             value |-> DesktopList_fmt(map[order[keys[i]]])]]

MimeApps_save(apps, order) ==
    [added   |-> write_section(apps.added_associations, order),
     default |-> write_section(apps.default_apps, order)]

\* MimeApps::default()
MimeApps_default == [added_associations |-> <<>>, default_apps |-> <<>>]

----------------------------------------------------------------------------
(* The AppsConfig object under any sequence of calls *)

\* the mimeapps.list files the object is constructed from: no association, or
\* v/wm added to an installed handler (written twice), or to a desktop file no
\* longer installed
StartFiles ==
    {[added |-> <<>>, default |-> <<>>],
     [added |-> <<[key |-> CharsOf["v/wm"], value |-> <<"a", ";", "a", ";">>]>>,
      default |-> <<>>],
     [added |-> <<[key |-> CharsOf["v/wm"], value |-> <<"a", "b", ";">>]>>,
      default |-> <<>>]}

\* what SystemApps::populate finds
SystemChoices == {[m \in {"v/wm", "v/m"} |-> <<"b">>]}

\* AppsConfig::new()
Init ==
    /\ file \in StartFiles
    /\ mime_apps = MimeApps_read(file)
    /\ system_apps \in SystemChoices
    /\ regex_apps = <<>>
    /\ opened = <<>>
    /\ pc = "ready"
    /\ ret = [op |-> "new"]

\* the Option of the default-association list of mime (<<>> is None)
Before(mime) ==
    IF mime \in DOMAIN mime_apps.default_apps
    THEN <<mime_apps.default_apps[mime]>> ELSE <<>>

AddHandler(mime, handler) ==
    /\ Total(mime_apps.default_apps) < MaxTotal
    /\ mime_apps' = add_handler(mime_apps, mime, handler)
    /\ ret' = [op |-> "add_handler", mime |-> mime, handler |-> handler,
               before |-> Before(mime)]
    /\ UNCHANGED <<system_apps, regex_apps, file, opened, pc>>

SetHandler(mime, handler) ==
    /\ Total(set_handler(mime_apps, mime, handler).default_apps) <= MaxTotal
    /\ mime_apps' = set_handler(mime_apps, mime, handler)
    /\ ret' = [op |-> "set_handler", mime |-> mime, handler |-> handler,
               before |-> Before(mime)]
    /\ UNCHANGED <<system_apps, regex_apps, file, opened, pc>>

UnsetHandler(mime) ==
    /\ mime_apps' = unset_handler(mime_apps, mime).apps
    /\ ret' = [op |-> "unset_handler", mime |-> mime, before |-> Before(mime),
               res |-> unset_handler(mime_apps, mime).ret]
    /\ UNCHANGED <<system_apps, regex_apps, file, opened, pc>>

RemoveHandler(mime, handler) ==
    /\ mime_apps' = remove_handler(mime_apps, mime, handler).apps
    /\ ret' = [op |-> "remove_handler", mime |-> mime, handler |-> handler,
               before |-> Before(mime),
               res |-> remove_handler(mime_apps, mime, handler).ret]
    /\ UNCHANGED <<system_apps, regex_apps, file, opened, pc>>

\* the selector is not run
NoRun == [ran |-> FALSE, out |-> <<>>]

\* what the selector may do at invocation n of a get_handler call that invokes it
\* invoked times
RunsAt(n, invoked) == IF n <= invoked THEN SelectorRuns ELSE {NoRun}

\* show_handler: get_handler, whose result is printed. The selector's behaviour
\* is drawn for the invocations that happen.
ShowHandler(mime, enable_selector, order) ==
    /\ \E run1 \in RunsAt(1, Len(get_handler(mime_apps, system_apps, mime, NoRun, NoRun,
                                              enable_selector, order).sel)) :
       \E run2 \in RunsAt(2, Len(get_handler(mime_apps, system_apps, mime, run1, NoRun,
                                              enable_selector, order).sel)) :
          ret' = [op |-> "get_handler", mime |-> mime,
                  enable_selector |-> enable_selector]
                 @@ get_handler(mime_apps, system_apps, mime, run1, run2,
                                enable_selector, order)
    /\ UNCHANGED <<mime_apps, system_apps, regex_apps, file, opened, pc>>

Next ==
    \/ \E mime \in MimeKeys, handler \in Installed : AddHandler(mime, handler)
    \/ \E mime \in MimeKeys, handler \in Installed : SetHandler(mime, handler)
    \/ \E mime \in MimeKeys : UnsetHandler(mime)
    \/ \E mime \in MimeKeys, handler \in Installed : RemoveHandler(mime, handler)
    \/ \E mime \in QueryMimes, enable_selector \in BOOLEAN :
          \E order \in Orders(longest_matches(mime_apps, mime)
                            \cup longest_matches(mime_apps, type_wildcard[mime])) :
            ShowHandler(mime, enable_selector, order)

Spec == Init /\ [][Next]_vars

----------------------------------------------------------------------------
(* Reading and writing mimeapps.list *)

InitFile ==
    /\ file \in Files
    /\ mime_apps = MimeApps_default
    /\ system_apps = <<>>
    /\ regex_apps = <<>>
    /\ opened = <<>>
    /\ pc = "ready"
    /\ ret = [op |-> "default"]

\* AppsConfig::new(): MimeApps::read()
Read ==
    /\ mime_apps' = MimeApps_read(file)
    /\ ret' = [op |-> "read"]
    /\ UNCHANGED <<system_apps, regex_apps, file, opened, pc>>

\* MimeApps::save(); order is the iteration order of the two HashMaps
Save(order) ==
    /\ file' = MimeApps_save(mime_apps, order)
    /\ ret' = [op |-> "save"]
    /\ UNCHANGED <<mime_apps, system_apps, regex_apps, opened, pc>>

NextFile ==
    \/ Read
    \/ \E order \in Orders(DOMAIN mime_apps.added_associations
                             \cup DOMAIN mime_apps.default_apps) : Save(order)

SpecFile == InitFile /\ [][NextFile]_vars

----------------------------------------------------------------------------
(* One run of the open command *)

\* the mimeapps.list of the run: empty, or v/wm=a;b;, or v/m=a; as defaults
OpenFiles ==
    {[added |-> <<>>, default |-> <<>>],
     [added |-> <<>>,
      default |-> <<[key |-> CharsOf["v/wm"], value |-> <<"a", ";", "b", ";">>]>>],
     [added |-> <<>>,
      default |-> <<[key |-> CharsOf["v/m"], value |-> <<"a", ";">>]>>]}

\* the regex handlers of the configuration
ByExtension == [exec |-> "p %u", terminal |-> FALSE, regexes |-> <<"wm$">>]
ByPrefix == [exec |-> "q %u", terminal |-> TRUE, regexes |-> <<"^/1", "^/n">>]

RegexChoices == {<<>>, <<ByExtension, ByPrefix>>, <<ByPrefix, ByExtension>>}

\* AppsConfig::new()
InitOpen ==
    /\ file \in OpenFiles
    /\ mime_apps = MimeApps_read(file)
    /\ system_apps \in SystemChoices \cup {<<>>}
    /\ regex_apps \in RegexChoices
    /\ opened = <<>>
    /\ pc = "ready"
    /\ ret = [op |-> "new"]

\* every way get_handler_from_path(path) may go: the order in which default_apps
\* iterates, and what the selector does at the invocations that happen
Resolutions(path, enable_selector) ==
    LET mime == get_mime(path)
        keys == IF IsOk(mime)
                THEN longest_matches(mime_apps, mime.val)
                       \cup longest_matches(mime_apps, type_wildcard[mime.val])
                ELSE {}
        from(run1, run2, order) ==
            get_handler_from_path(mime_apps, system_apps, regex_apps, path, run1, run2,
                                  enable_selector, order)
    IN  UNION {UNION {{from(run1, run2, order) :
                          run2 \in RunsAt(2, Len(from(run1, NoRun, order).sel))} :
                      run1 \in RunsAt(1, Len(from(NoRun, NoRun, order).sel))} :
               order \in Orders(keys)}

RECURSIVE resolve_all(_, _)
\* the runs of the first loop of open_paths: the result for each path in turn, up
\* to the first error
resolve_all(paths, outcomes) ==
    IF paths = <<>> THEN {<<>>}
    ELSE UNION {IF IsOk(o.res)
                THEN {<<o>> \o rest : rest \in resolve_all(Tail(paths), outcomes)}
                ELSE {<<o>>} : o \in outcomes[Head(paths)]}

\* the keys of the HashMap handlers after the first loop
resolved_handlers(resolved) ==
    {resolved[i].res.val : i \in {j \in DOMAIN resolved : IsOk(resolved[j].res)}}

\* Cmd::Open: open_paths, then the process ends
OpenPaths(paths, enable_selector) ==
    /\ pc = "ready"
    /\ \E outcomes \in {[p \in Paths |-> Resolutions(p, enable_selector)]} :
       \E resolved \in resolve_all(paths, outcomes) :
       \E order \in Orders(resolved_handlers(resolved)) :
       \E fail \in 0..Len(order) :
          \E out \in {open_paths(paths, resolved, order, fail)} :
             /\ opened' = opened \o out.calls
             /\ ret' = [op |-> "open_paths", paths |-> paths,
                        enable_selector |-> enable_selector,
                        resolved |-> resolved, res |-> out.res]
    /\ pc' = "done"
    /\ UNCHANGED <<mime_apps, system_apps, regex_apps, file>>

NextOpen ==
    \E paths \in SeqsUpTo(Paths, MaxPaths), enable_selector \in BOOLEAN :
        OpenPaths(paths, enable_selector)

SpecOpen == InitOpen /\ [][NextOpen]_vars

----------------------------------------------------------------------------
(* Claims about the resolution of a MIME type and the commands (Spec) *)

Default == mime_apps.default_apps
Added == mime_apps.added_associations

\* the last operation was get_handler(mime, _, false)
ResolvedWithoutSelector == ret.op = "get_handler" /\ ~ret.enable_selector

\* the keys other than mime itself whose glob matches mime
WildcardKeys(mime) == {p \in DOMAIN Default \ {mime} : mime \in matches[p]}

\* C1: when the exact key m has a non-empty list and wildcard keys match m as
\* well, get_handler(m) without the selector returns the front handler of m's own
\* list.
C1_ExactBeatsWildcard ==
    (/\ ResolvedWithoutSelector
     /\ ret.mime \in DOMAIN Default
     /\ Default[ret.mime] # <<>>
     /\ WildcardKeys(ret.mime) # {})
    => ret.res = Ok(Default[ret.mime][1])

\* v/wm resolved to its own handler b although the wildcards v/* and v/w* hold a
C1_Witness ==
    /\ ResolvedWithoutSelector
    /\ ret.mime = "v/wm"
    /\ DOMAIN Default = {"v/wm", "v/w*"}
    /\ Default["v/wm"] = <<"b">>
    /\ Default["v/w*"] = <<"a">>
    /\ ret.res = Ok("b")

\* C2: when m has no exact key and two or more wildcard keys match m, resolving
\* m (without the selector) returns the front handler of a matching key of the
\* greatest length, and is never an error.
C2_LongestWildcardWins ==
    (/\ ResolvedWithoutSelector
     /\ ret.mime \notin DOMAIN Default
     /\ Cardinality(WildcardKeys(ret.mime)) >= 2)
    => /\ IsOk(ret.res)
       /\ \E p \in WildcardKeys(ret.mime) :
            /\ \A q \in WildcardKeys(ret.mime) : Len(CharsOf[q]) <= Len(CharsOf[p])
            /\ Default[p] # <<>>
            /\ ret.res.val = Default[p][1]

\* what step 3 and step 4 of the chain yield (<<>> is nothing)
AddedYield(mime) ==
    IF mime \in DOMAIN Added /\ Added[mime] # <<>> THEN <<Added[mime][1]>> ELSE <<>>
SystemYield(mime) ==
    IF mime \in DOMAIN system_apps THEN <<system_apps[mime][1]>> ELSE <<>>

\* the result of the four steps, the HashMap iterating in this order
Chain(mime, order) ==
    LET step1 == get_handler_from_user(mime_apps, mime, NoRun, FALSE, order).res
        step2 == get_handler_from_user(mime_apps, type_wildcard[mime], NoRun, FALSE,
                                       order).res
    IN  IF IsOk(step1) THEN step1
        ELSE IF IsOk(step2) THEN step2
        ELSE IF AddedYield(mime) # <<>> THEN Ok(AddedYield(mime)[1])
        ELSE IF SystemYield(mime) # <<>> THEN Ok(SystemYield(mime)[1])
        ELSE Err("NotFound", mime)

\* C3: without the selector, get_handler(mime) returns what the first of the four
\* steps that yields a handler yields (user defaults of mime, user defaults of
\* type/*, front of the added associations, front system handler), and NotFound
\* only when none of them yields one.
C3_PrecedenceChain ==
    ResolvedWithoutSelector
    => \E order \in Orders(longest_matches(mime_apps, ret.mime)
                           \cup longest_matches(mime_apps, type_wildcard[ret.mime])) :
          ret.res = Chain(ret.mime, order)

\* C4: whenever a selector invoked during get_handler returns empty output,
\* get_handler returns Cancelled and the step that invoked it is the last one
\* consulted.
C4_CancelAborts ==
    ret.op = "get_handler"
    => \A i \in DOMAIN ret.sel :
          (ret.sel[i].ran /\ ret.sel[i].out = <<>>)
          => /\ ret.res.kind = "Cancelled"
             /\ ret.steps[Len(ret.steps)] = ret.sel[i].step

\* C5: after set_handler(mime, h) the default-association list of mime is [h].
C5_SetHandlerSingle ==
    ret.op = "set_handler"
    => /\ ret.mime \in DOMAIN Default
       /\ Default[ret.mime] = <<ret.handler>>

\* set_handler replaced a list of two handlers
C5_Witness ==
    /\ ret.op = "set_handler"
    /\ ret.before # <<>>
    /\ Len(ret.before[1]) >= 2
    /\ Default[ret.mime] = <<ret.handler>>

\* list without its first element equal to h
WithoutFirst(list, h) ==
    LET i == CHOOSE i \in DOMAIN list : list[i] = h /\ \A j \in 1..(i - 1) : list[j] # h
    IN  [k \in 1..(Len(list) - 1) |-> IF k < i THEN list[k] ELSE list[k + 1]]

----------------------------------------------------------------------------
(* Claims about the open command (SpecOpen) *)

\* the last operation was open_paths and its first loop resolved every path
AllResolved ==
    /\ ret.op = "open_paths"
    /\ Len(ret.resolved) = Len(ret.paths)
    /\ \A i \in DOMAIN ret.resolved : IsOk(ret.resolved[i].res)

\* the handler path number i resolved to
HandlerOf(i) == ret.resolved[i].res.val

\* args is the strings of the paths that resolved to handler, in input order
ArgsOf(args, handler) ==
    \E at \in [DOMAIN args -> DOMAIN ret.paths] :
        /\ \A k \in DOMAIN args : \A l \in DOMAIN args : k < l => at[k] < at[l]
        /\ {at[k] : k \in DOMAIN args} = {i \in DOMAIN ret.paths : HandlerOf(i) = handler}
        /\ \A k \in DOMAIN args : args[k] = ret.paths[at[k]].path

\* the open calls made for handler
CallsOf(handler) == {c \in DOMAIN opened : opened[c].handler = handler}

\* C7 as stated: when every path resolves, open is invoked exactly once for each
\* distinct resolved handler, with exactly the paths that resolved to it in input
\* order, so that every input path is in exactly one invocation.
C7_OncePerHandler ==
    AllResolved
    => /\ \A i \in DOMAIN ret.paths : Cardinality(CallsOf(HandlerOf(i))) = 1
       /\ \A c \in DOMAIN opened : ArgsOf(opened[c].args, opened[c].handler)

\* C7: when every path resolves, open is never invoked twice for the same handler
\* and each invocation's arguments are exactly the paths that resolved to its
\* handler, in input order; the handlers are opened one after another until an
\* open fails: when open_paths returns Ok every distinct resolved handler was
\* opened exactly once and every input path is in exactly one invocation, and
\* when an open fails it is the last invocation and open_paths returns its error.
C7_OncePerHandlerUntilFailure ==
    AllResolved
    => /\ \A i \in DOMAIN ret.paths : Cardinality(CallsOf(HandlerOf(i))) <= 1
       /\ \A c \in DOMAIN opened :
            /\ \E i \in DOMAIN ret.paths : opened[c].handler = HandlerOf(i)
            /\ ArgsOf(opened[c].args, opened[c].handler)
            /\ ~opened[c].ok => c = Len(opened)
       /\ IsOk(ret.res)
            => /\ \A i \in DOMAIN ret.paths : Cardinality(CallsOf(HandlerOf(i))) = 1
               /\ \A c \in DOMAIN opened : opened[c].ok
       /\ ~IsOk(ret.res) => opened # <<>> /\ ~opened[Len(opened)].ok

\* two paths of different MIME types resolved to the same handler and were opened
\* by one invocation
C7_Witness ==
    /\ AllResolved
    /\ IsOk(ret.res)
    /\ ret.paths = <<[variant |-> "File", path |-> "/3.m"],
                     [variant |-> "File", path |-> "/1.wm"]>>
    /\ opened = <<[handler |-> [variant |-> "DesktopHandler", name |-> "b"],
                   args |-> <<"/3.m", "/1.wm">>, ok |-> TRUE]>>

\* the numbers of the regex handlers of the configuration that match text
Matching(text) ==
    {k \in DOMAIN regex_apps :
        \E j \in DOMAIN regex_apps[k].regexes : text \in RegexLanguage[regex_apps[k].regexes[j]]}

\* C8: get_handler_from_path returns the first regex handler, in configuration
\* order, that matches the path's text, whatever the MIME associations are, and
\* then no MIME resolution is made; when none matches the regex lookup fails with
\* NotFound and the MIME type of the path is resolved.
C8_RegexFirstMatch ==
    ret.op = "open_paths"
    => \A i \in DOMAIN ret.resolved :
          LET text == ret.paths[i].path
              got == ret.resolved[i]
          IN  IF Matching(text) # {}
              THEN LET first == CHOOSE k \in Matching(text) : \A l \in Matching(text) : k <= l
                   IN  /\ got.regex = Ok(regex_apps[first])
                       /\ got.res = Ok([variant |-> "RegexHandler"] @@ regex_apps[first])
                       /\ got.steps = <<>>
                       /\ got.sel = <<>>
              ELSE /\ got.regex = Err("NotFound", text)
                   /\ IsOk(get_mime(ret.paths[i])) => got.steps # <<>>
                   /\ IsOk(got.res) => got.res.val.variant = "DesktopHandler"

\* /1.wm matches both regex handlers and v/wm has default handlers; the path
\* resolved to the regex handler configured first
C8_Witness ==
    /\ ret.op = "open_paths"
    /\ regex_apps = <<ByPrefix, ByExtension>>
    /\ "v/wm" \in DOMAIN mime_apps.default_apps
    /\ ret.paths = <<[variant |-> "File", path |-> "/1.wm"]>>
    /\ ret.resolved[1].res = Ok([variant |-> "RegexHandler"] @@ ByPrefix)
    /\ opened # <<>>

----------------------------------------------------------------------------
(* Claims about mimeapps.list (SpecFile) *)

\* the lines of both sections of a file
LinesOf(f) == {f.added[i] : i \in DOMAIN f.added} \cup {f.default[i] : i \in DOMAIN f.default}

\* the entries of a value: what stands between its semicolons
Entries(value) ==
    LET parts == split(value, ";")
    IN  {i \in DOMAIN parts : parts[i] # <<>>}

\* every entry of the value is the name of an installed handler and none is
\* there twice
ValidEntries(value) ==
    LET parts == split(value, ";")
    IN  \A i \in Entries(value) :
            /\ DesktopHandler_valid(parts[i])
            /\ \A j \in Entries(value) : parts[i] = parts[j] => i = j

\* g holds the keys of f in both sections and under each key the value of f
SameAssociations(f, g) ==
    /\ Len(g.added) = Len(f.added)
    /\ Len(g.default) = Len(f.default)
    /\ {g.added[i] : i \in DOMAIN g.added} = {f.added[i] : i \in DOMAIN f.added}
    /\ {g.default[i] : i \in DOMAIN g.default} = {f.default[i] : i \in DOMAIN f.default}

\* a save of what was just read
SaveAfterRead == ret.op = "read" /\ ret'.op = "save"

\* C9 as stated: for a file whose entries are all valid handler names without
\* duplicates in a list, read() then save() writes the same keys in both sections
\* and the same value string under each key.
C9_RoundTrip ==
    [][(SaveAfterRead /\ \A l \in LinesOf(file) : ValidEntries(l.value))
        => SameAssociations(file, file')]_vars

\* the value is one or more entries, each followed by a semicolon
Terminated(value) ==
    LET parts == split(value, ";")
    IN  /\ Len(parts) >= 2
        /\ parts[Len(parts)] = <<>>
        /\ \A i \in 1..(Len(parts) - 1) : parts[i] # <<>>

\* the key is written in lower case
LowerCase(key) == \A i \in DOMAIN key : to_ascii_lowercase(key[i]) = key[i]

\* the keys of a section are distinct
DistinctKeys(lines) ==
    \A i \in DOMAIN lines : \A j \in DOMAIN lines : lines[i].key = lines[j].key => i = j

\* C9: for a file whose keys are lower-case MIME strings, distinct within a
\* section, and whose values each are one or more distinct valid handler names,
\* each followed by a semicolon, read() then save() writes the same keys in both
\* sections and the same value string under each key.
C9_RoundTripCanonical ==
    [][(/\ SaveAfterRead
        /\ DistinctKeys(file.added)
        /\ DistinctKeys(file.default)
        /\ \A l \in LinesOf(file) :
              LowerCase(l.key) /\ ValidEntries(l.value) /\ Terminated(l.value))
        => SameAssociations(file, file')]_vars

\* a file with two handlers added and one default handler was read and written
\* back as it was
C9_Witness ==
    /\ ret.op = "save"
    /\ file = [added   |-> <<[key |-> CharsOf["v/wm"], value |-> <<"a", ";", "b", ";">>]>>,
               default |-> <<[key |-> CharsOf["v/wm"], value |-> <<"b", ";">>]>>]
    /\ mime_apps = [added_associations |-> [m \in {"v/wm"} |-> <<"a", "b">>],
                    default_apps       |-> [m \in {"v/wm"} |-> <<"b">>]]

\* C10: after read() no key of the default associations and no key of the added
\* associations maps to an empty handler list.
C10_NoEmptyListAfterRead ==
    ret.op = "read"
    => /\ \A m \in DOMAIN mime_apps.default_apps : mime_apps.default_apps[m] # <<>>
       /\ \A m \in DOMAIN mime_apps.added_associations :
             mime_apps.added_associations[m] # <<>>

----------------------------------------------------------------------------
(* Claim about entries with no handler (Spec) *)

\* the associations without the key k of the default associations
WithoutDefault(k) == [mime_apps EXCEPT !.default_apps = Remove(@, k)]

\* the associations without the key k of the added associations
WithoutAdded(k) == [mime_apps EXCEPT !.added_associations = Remove(@, k)]

\* what get_handler(mime) without the selector may return for the associations
ResultsFor(apps, mime) ==
    {get_handler(apps, system_apps, mime, NoRun, NoRun, FALSE, order).res :
        order \in Orders(longest_matches(apps, mime)
                         \cup longest_matches(apps, type_wildcard[mime]))}

\* C11: a key mapped to an empty list is as good as no key: get_handler returns
\* for every MIME what it returns for the associations without that key, be it
\* a key of the default or of the added associations.
C11_EmptyIsAbsent ==
    ResolvedWithoutSelector
    => /\ \A k \in {m \in DOMAIN Default : Default[m] = <<>>} :
             ret.res \in ResultsFor(WithoutDefault(k), ret.mime)
       /\ \A k \in {m \in DOMAIN Added : Added[m] = <<>>} :
             ret.res \in ResultsFor(WithoutAdded(k), ret.mime)

(* Claims about duplicate entries and about add_handler (SpecUser) *)

\* no list of the user associations holds a handler twice
DuplicateFree(apps) ==
    /\ \A m \in DOMAIN apps.default_apps :
          \A i, j \in DOMAIN apps.default_apps[m] :
             apps.default_apps[m][i] = apps.default_apps[m][j] => i = j
    /\ \A m \in DOMAIN apps.added_associations :
          \A i, j \in DOMAIN apps.added_associations[m] :
             apps.added_associations[m][i] = apps.added_associations[m][j] => i = j

\* C12 as stated: in every state reachable from a loaded file by add_handler,
\* set_handler, remove_handler and unset_handler no list holds a handler twice.
C12_DuplicateFree == DuplicateFree(mime_apps)

\* the step is an add_handler of a handler the list of the mime already holds
AddsAgain ==
    /\ ret'.op = "add_handler"
    /\ ret'.before # <<>>
    /\ \E i \in DOMAIN ret'.before[1] : ret'.before[1][i] = ret'.handler

\* C12: the lists loaded from the file are duplicate-free, and set_handler,
\* remove_handler, unset_handler and an add_handler of a handler the list does
\* not hold yet keep them so; only an add_handler of a handler the list already
\* holds puts a handler twice into a list.
C12_DuplicateFreeButAddHandler ==
    /\ DuplicateFree(mime_apps)
    /\ [][(DuplicateFree(mime_apps) /\ ~AddsAgain) => DuplicateFree(mime_apps')]_vars

\* a handler written twice in the file was loaded once, and set_handler replaced
\* a list
C12_Witness ==
    /\ file.added # <<>>
    /\ file.added[1].value = <<"a", ";", "a", ";">>
    /\ Added["v/wm"] = <<"a">>
    /\ ret.op = "set_handler"
    /\ ret.before = <<<<"a", "b">>>>
    /\ DuplicateFree(mime_apps)

\* C15: add_handler(mime, h) puts h at the back of mime's default list, creating
\* the list when absent, keeps the elements already there in their order, and
\* leaves every other default key and the added associations as they were; when
\* mime had a non-empty list, get_handler(mime) without the selector gives the
\* same result before and after.
C15_AddHandlerAppends ==
    [][ret'.op = "add_handler"
       => LET m == ret'.mime
              old == IF m \in DOMAIN Default THEN Default[m] ELSE <<>>
          IN  /\ DOMAIN Default' = DOMAIN Default \cup {m}
              /\ Len(Default'[m]) = Len(old) + 1
              /\ Default'[m][Len(old) + 1] = ret'.handler
              /\ \A i \in DOMAIN old : Default'[m][i] = old[i]
              /\ \A k \in DOMAIN Default \ {m} : Default'[k] = Default[k]
              /\ Added' = Added
              /\ old # <<>>
                 => /\ ResultsFor(mime_apps', m) = ResultsFor(mime_apps, m)
                    /\ ResultsFor(mime_apps', m) = {Ok(old[1])}]_vars

\* b was added to a list that held a
C15_Witness ==
    /\ ret.op = "add_handler"
    /\ ret.handler = "b"
    /\ ret.before = <<<<"a">>>>
    /\ Default[ret.mime] = <<"a", "b">>

(* Claim about resolution failures in open_paths (SpecOpen) *)

\* the paths whose resolution failed
Unresolved ==
    {i \in DOMAIN ret.resolved : ~IsOk(ret.resolved[i].res)}

\* C16: when the resolution of a path of the batch fails, with NotFound,
\* Cancelled or a MIME detection error, open_paths returns that error and no
\* open was invoked, not even for the earlier paths that resolved.
C16_ResolveBeforeOpen ==
    (ret.op = "open_paths" /\ Unresolved # {})
    => /\ opened = <<>>
       /\ \A i \in Unresolved :
             /\ ret.res = ret.resolved[i].res
             /\ ret.res.kind \in {"NotFound", "Cancelled", "Io"}
             /\ \A j \in 1..(i - 1) : IsOk(ret.resolved[j].res)

\* the first path resolved to a handler, the MIME type of the second could not
\* be detected, and nothing was opened
C16_Witness ==
    /\ ret.op = "open_paths"
    /\ ret.paths = <<[variant |-> "File", path |-> "/1.wm"],
                     [variant |-> "File", path |-> "/none"]>>
    /\ Len(ret.resolved) = 2
    /\ IsOk(ret.resolved[1].res)
    /\ ret.res = ret.resolved[2].res
    /\ ret.res.kind = "Io"
    /\ opened = <<>>

----------------------------------------------------------------------------
(* The user associations queried directly: get_handler_from_user after any
   sequence of add_handler, set_handler, unset_handler and remove_handler *)

\* one call of get_handler_from_user; order is the HashMap iteration order that
\* decides between wildcard keys of the same length
GetHandlerFromUser(mime, use_selector, order) ==
    /\ \E run \in RunsAt(1, Len(get_handler_from_user(mime_apps, mime, NoRun,
                                                       use_selector, order).sel)) :
          ret' = [op |-> "get_handler_from_user", mime |-> mime,
                  use_selector |-> use_selector, order |-> order]
                 @@ get_handler_from_user(mime_apps, mime, run, use_selector, order)
    /\ UNCHANGED <<mime_apps, system_apps, regex_apps, file, opened, pc>>

NextUser ==
    \/ \E mime \in MimeKeys, handler \in Installed : AddHandler(mime, handler)
    \/ \E mime \in MimeKeys, handler \in Installed : SetHandler(mime, handler)
    \/ \E mime \in MimeKeys : UnsetHandler(mime)
    \/ \E mime \in MimeKeys, handler \in Installed : RemoveHandler(mime, handler)
    \/ \E mime \in QueryMimes, use_selector \in BOOLEAN :
          \E order \in Orders(longest_matches(mime_apps, mime)) :
            GetHandlerFromUser(mime, use_selector, order)

SpecUser == Init /\ [][NextUser]_vars

(* Claim about the selector in get_handler_from_user (SpecUser) *)

\* the last operation was get_handler_from_user
AskedUser == ret.op = "get_handler_from_user"

\* the Option of the resolved list: the list of the exact key, else the list of
\* the longest matching wildcard key
ResolvedList ==
    IF ret.mime \in DOMAIN Default THEN <<Default[ret.mime]>>
    ELSE IF longest_matches(mime_apps, ret.mime) = {} THEN <<>>
    ELSE <<Default[FirstOf(ret.order, longest_matches(mime_apps, ret.mime))]>>

\* the selector was invoked iff use_selector and the resolved list has more than
\* one entry
SelectorIffSeveral ==
    (ret.sel # <<>>) <=> (ret.use_selector /\ ResolvedList # <<>> /\ Len(ResolvedList[1]) > 1)

\* the selector answered and the result is a member of the resolved list whose
\* display name is the answer, or NotFound when no member has that name
AnswerChosen ==
    (ret.sel # <<>> /\ ret.sel[1].ran /\ ret.sel[1].out # <<>>)
    => LET named == {i \in DOMAIN ResolvedList[1] :
                        <<EntryName[ResolvedList[1][i]]>> = ret.sel[1].out}
       IN  IF named = {} THEN ret.res = Err("NotFound", ret.mime)
           ELSE \E i \in named : ret.res = Ok(ResolvedList[1][i])

----------------------------------------------------------------------------
(* AppsConfig::terminal *)

\* the Exec= line of an installed desktop entry
EntryExec == [h \in Installed |-> IF h = "a" THEN "exec-a" ELSE "exec-b"]

\* config.term_exec_args
TermExecArgs == {<<>>, <<"-e">>}

\* what std::fs and serde_ini may do in MimeApps::save: write the file, fail to
\* open it, or fail after it was truncated
SaveOutcomes == {"ok", "open_failed", "write_failed"}

\* terminal() that sets the guessed handler without saving the associations
terminal_no_save(apps, f, h, found, notified, saved, save_order, opts) ==
    LET kept == [apps |-> apps, file |-> f, entry |-> h, guess |-> found,
                 notify |-> <<>>, saves |-> <<>>, res |-> Err("NoTerminal", <<>>)]
    IN  IF IsOk(h)
        THEN [kept EXCEPT !.guess = <<>>,
                          !.res = Ok([exec |-> EntryExec[h.val], args |-> opts])]
        ELSE IF found = <<>> THEN kept
        ELSE IF ~notified THEN [kept EXCEPT !.notify = <<[name |-> found[1], ok |-> FALSE]>>]
        ELSE [kept EXCEPT !.notify = <<[name |-> found[1], ok |-> TRUE]>>,
                          !.apps = set_handler(apps, "x/t", found[1]),
                          !.res = Ok([exec |-> EntryExec[found[1]], args |-> opts])]

\* h is the Result get_handler returned for x-scheme-handler/terminal, found the
\* Option of the first entry of the listing flagged as a terminal emulator,
\* notified whether the notification could be sent, saved what save does,
\* save_order the order in which it writes the keys, opts config.term_exec_args.
\* The record returned holds the associations and the file after the call, the
\* notifications and the saves made, and res, the Result returned.
terminal(apps, f, h, found, notified, saved, save_order, opts) ==
    LET kept == [apps |-> apps, file |-> f, entry |-> h, guess |-> found,
                 notify |-> <<>>, saves |-> <<>>, res |-> Err("NoTerminal", <<>>)]
    IN  IF IsOk(h)
        THEN [kept EXCEPT !.guess = <<>>,
                          !.res = Ok([exec |-> EntryExec[h.val], args |-> opts])]
        ELSE IF found = <<>> THEN kept
        ELSE IF ~notified THEN [kept EXCEPT !.notify = <<[name |-> found[1], ok |-> FALSE]>>]
        ELSE LET set == set_handler(apps, "x/t", found[1])
                 told == [kept EXCEPT !.notify = <<[name |-> found[1], ok |-> TRUE]>>,
                                      !.apps = set, !.saves = <<saved>>]
             IN  IF saved = "ok"
                 THEN [told EXCEPT !.file = MimeApps_save(set, save_order),
                                   !.res = Ok([exec |-> EntryExec[found[1]],
                                               args |-> opts])]
                 ELSE IF saved = "write_failed"
                 THEN [told EXCEPT !.file = [added |-> <<>>, default |-> <<>>]]
                 ELSE told

----------------------------------------------------------------------------
(* terminal() called by one process after another *)

\* the mimeapps.list files a process may start from: no association, two default
\* terminals, or an added association to a desktop file no longer installed
TerminalFiles ==
    {[added |-> <<>>, default |-> <<>>],
     [added |-> <<>>,
      default |-> <<[key |-> CharsOf["x/t"], value |-> <<"a", ";", "b", ";">>]>>],
     [added |-> <<[key |-> CharsOf["x/t"], value |-> <<"a", "b", ";">>]>>,
      default |-> <<>>]}

\* the system either knows no terminal handler or maps the scheme to b
TerminalSystemChoices == {<<>>, [m \in {"x/t"} |-> <<"b">>]}

\* the key the associations of the terminal are changed under
TerminalKeys == {"x/t"}

InitTerminal ==
    /\ file \in TerminalFiles
    /\ mime_apps = MimeApps_read(file)
    /\ system_apps \in TerminalSystemChoices
    /\ regex_apps = <<>>
    /\ opened = <<>>
    /\ pc = "ready"
    /\ ret = [op |-> "new"]

\* one call of terminal(); what the listing, the notification and the save do is
\* drawn only where terminal() gets that far
Terminal(enable_selector, order) ==
    /\ \E run1 \in RunsAt(1, Len(get_handler(mime_apps, system_apps, "x/t", NoRun, NoRun,
                                              enable_selector, order).sel)) :
       \E run2 \in RunsAt(2, Len(get_handler(mime_apps, system_apps, "x/t", run1, NoRun,
                                              enable_selector, order).sel)) :
       \E h \in {get_handler(mime_apps, system_apps, "x/t", run1, run2,
                             enable_selector, order).res} :
       \E found \in IF IsOk(h) THEN {<<>>} ELSE {<<>>} \cup {<<t>> : t \in Installed} :
       \E notified \in IF found = <<>> THEN {TRUE} ELSE BOOLEAN :
       \E saved \in IF found = <<>> \/ ~notified THEN {"ok"} ELSE SaveOutcomes :
       \E save_order \in IF found = <<>> \/ ~notified \/ saved # "ok" THEN {<<>>}
                         ELSE Orders(DOMAIN mime_apps.default_apps
                                     \cup DOMAIN mime_apps.added_associations
                                     \cup {"x/t"}) :
       \E opts \in TermExecArgs :
       \E out \in {terminal(mime_apps, file, h, found, notified, saved, save_order,
                            opts)} :
          /\ mime_apps' = out.apps
          /\ file' = out.file
          /\ ret' = [op |-> "terminal", enable_selector |-> enable_selector,
                     entry |-> out.entry, guess |-> out.guess,
                     notify |-> out.notify, saves |-> out.saves, res |-> out.res]
    /\ pc' = "called"
    /\ UNCHANGED <<system_apps, regex_apps, opened>>

\* the process ends and the next one reads the file: AppsConfig::new
Restart ==
    /\ pc = "called"
    /\ mime_apps' = MimeApps_read(file)
    /\ pc' = "ready"
    /\ UNCHANGED <<system_apps, regex_apps, file, opened, ret>>

NextTerminal ==
    \/ \E enable_selector \in BOOLEAN :
          \E order \in Orders(longest_matches(mime_apps, "x/t")
                            \cup longest_matches(mime_apps, type_wildcard["x/t"])) :
            Terminal(enable_selector, order)
    \/ Restart
    \/ \E mime \in TerminalKeys, handler \in Installed : AddHandler(mime, handler)
    \/ \E mime \in TerminalKeys, handler \in Installed : SetHandler(mime, handler)
    \/ \E mime \in TerminalKeys : UnsetHandler(mime)
    \/ \E mime \in TerminalKeys, handler \in Installed : RemoveHandler(mime, handler)

SpecTerminal == InitTerminal /\ [][NextTerminal]_vars

(* Claim about the guessed terminal (SpecTerminal) *)

\* the step is a call of terminal()
TerminalStep == ret'.op = "terminal" /\ pc' = "called"

\* t is the only default handler of x-scheme-handler/terminal, in memory and in
\* the file on disk
Persisted(t) ==
    /\ "x/t" \in DOMAIN Default
    /\ Default["x/t"] = <<t>>
    /\ \E i \in DOMAIN file.default :
          /\ file.default[i] = [key |-> CharsOf["x/t"], value |-> <<t, ";">>]
          /\ \A j \in DOMAIN file.default :
                file.default[j].key = CharsOf["x/t"] => j = i

\* terminal() did not resolve the scheme and returned the command of an entry it
\* looked up: that entry is now the only default, the associations were saved and
\* one notification was sent
GuessPersists ==
    (TerminalStep /\ ~IsOk(ret'.entry) /\ IsOk(ret'.res))
    => \E t \in Installed :
          /\ ret'.guess = <<t>>
          /\ ret'.res.val.exec = EntryExec[t]
          /\ ret'.notify = <<[name |-> t, ok |-> TRUE]>>
          /\ ret'.saves = <<"ok">>
          /\ DOMAIN Default' = DOMAIN Default \cup {"x/t"}
          /\ \A k \in DOMAIN Default \ {"x/t"} : Default'[k] = Default[k]
          /\ Added' = Added
          /\ Persisted(t)'

\* after a terminal() call that succeeded with the terminal persisted, and with
\* no other operation since, a further call, in this process or in a later one,
\* resolves the persisted default, sends no notification and neither changes nor
\* saves the associations
LaterCallsResolve ==
    \A t \in Installed :
       (ret.op = "terminal" /\ IsOk(ret.res) /\ Persisted(t)
        /\ ret'.op = "terminal")
       => /\ Persisted(t)'
          /\ TerminalStep
             => /\ ret'.entry = Ok(t)
                /\ ret'.res.kind = "Ok"
                /\ ret'.res.val.exec = EntryExec[t]
                /\ ret'.guess = <<>>
                /\ ret'.notify = <<>>
                /\ ret'.saves = <<>>
                /\ mime_apps' = mime_apps
                /\ file' = file

\* when the scheme resolves, terminal() changes nothing
ResolvedUnchanged ==
    (TerminalStep /\ IsOk(ret'.entry))
    => /\ mime_apps' = mime_apps
       /\ file' = file
       /\ ret'.notify = <<>>
       /\ ret'.saves = <<>>
       /\ ret'.res.kind = "Ok"
       /\ ret'.res.val.exec = EntryExec[ret'.entry.val]

\* C13: when x-scheme-handler/terminal does not resolve and terminal() succeeds
\* with a guessed terminal emulator, that handler becomes the only default of the
\* scheme and the associations are saved; every later call with no operation in
\* between, in the same or in a later process, resolves that default without a
\* notification and without changing or saving the associations; when the scheme
\* resolves, terminal() leaves the associations as they are.
C13_GuessOnce ==
    [][GuessPersists /\ LaterCallsResolve /\ ResolvedUnchanged]_vars

\* a later call resolved the guessed terminal a: the system knows no terminal
\* handler and no file a process starts from has a as the only default
C13_Witness ==
    /\ ret.op = "terminal"
    /\ system_apps = <<>>
    /\ Persisted("a")
    /\ ret.entry = Ok("a")
    /\ ret.guess = <<>>
    /\ ret.notify = <<>>
    /\ pc = "called"

====
